---- MODULE Spec2Model ----
(***************************************************************************)
(* MCPManager of src/src/utils/mcp.ts: the registry of provider sessions,  *)
(* the initialize / tools/list handshake of startServer, the correlation   *)
(* of JSON-RPC responses with pending requests, stopServer and the process *)
(* exit / error handlers.                                                  *)
(*                                                                         *)
(* Node runs the manager on one event loop.  One action below is one       *)
(* macrotask (an API call up to its first await, one line read from a      *)
(* provider's stdout, one process event) together with the promise         *)
(* continuations it schedules: a continuation runs before the next         *)
(* macrotask, and the only code that can run between a resolve() and its   *)
(* continuation is handleMessage for further lines of the same chunk,      *)
(* which never touches the id the continuation allocates next.             *)
(***************************************************************************)
EXTENDS Integers, Sequences, FiniteSets, TLC

\* ---------------------------------------------------------------- bounds
MaxSessions == 2
MaxId == 4

Commands == {"c1", "c2"}
ToolLists == {<<"search", "echo">>}
ErrMsgs == {"e1"}
ParamVals == {"p1"}

SessionIds == 1..MaxSessions

\* ------------------------------------------------------- JSON-RPC values
\* The `result` of a response (Undefined: the field is absent or null) or
\* its `error`.
Undefined ==
    [tag |-> "undefined", tools |-> << >>, message |-> "", content |-> << >>]
PlainResult ==
    [tag |-> "plain", tools |-> << >>, message |-> "", content |-> << >>]
ToolsResult(tl) ==
    [tag |-> "tools", tools |-> tl, message |-> "", content |-> << >>]
ErrorOf(m) ==
    [tag |-> "error", tools |-> << >>, message |-> m, content |-> << >>]

\* The result of a tools/call: { content: [ { type, text }, ... ] }, or a
\* result whose content field is not an array.
Block(ty, tx) == [type |-> ty, text |-> tx]
ContentLists ==
    {<< >>,
     <<Block("text", "hi")>>,
     <<Block("image", "")>>,
     <<Block("image", ""), Block("text", "a"), Block("image", ""),
       Block("text", "b")>>}
ContentResult(cl) ==
    [tag |-> "content", tools |-> << >>, message |-> "", content |-> cl]
ScalarContentResult ==
    [tag |-> "scalarContent", tools |-> << >>, message |-> "", content |-> << >>]

ResultVals == {PlainResult} \cup {ToolsResult(tl) : tl \in ToolLists}

\* One line read from a provider's stdout, after JSON.parse.
\*   response: has an id; body says which of result / error it carries
\*   notification: no id, has a method;  malformed: JSON.parse throws
ResponseLines ==
    {[type |-> "response", id |-> i, body |-> "result", val |-> v] :
        i \in 0..MaxId, v \in ResultVals}
    \cup {[type |-> "response", id |-> i, body |-> "error", val |-> ErrorOf(m)] :
        i \in 0..MaxId, m \in ErrMsgs}
    \cup {[type |-> "response", id |-> i, body |-> "none", val |-> Undefined] :
        i \in 0..MaxId}
\* The responses a provider gives to tools/call requests.
CallLines ==
    ResponseLines
    \cup {[type |-> "response", id |-> i, body |-> "result", val |-> v] :
        i \in 0..MaxId,
        v \in {ContentResult(cl) : cl \in ContentLists} \cup {ScalarContentResult}}

Lines ==
    ResponseLines
    \cup {[type |-> t, id |-> 0, body |-> "none", val |-> Undefined] :
        t \in {"notification", "malformed"}}

\* ------------------------------------------------------ schema translation
\* A JSON schema as a provider sends it.  isNull: the schema is null or
\* missing; type "none": it has no type; properties: the declared keys with
\* their sub-schemas; hasRequired: it has a required list; items: the item
\* schema of an array, if any.
Keys == {"a", "b"}
NoProperties == [k \in {} |-> 0]
Schema(ty, props, hasReq, req, its) ==
    [isNull |-> FALSE, type |-> ty, properties |-> props,
     hasRequired |-> hasReq, required |-> req, items |-> its]
NullSchema ==
    [isNull |-> TRUE, type |-> "none", properties |-> NoProperties,
     hasRequired |-> FALSE, required |-> {}, items |-> << >>]
TypeNames ==
    {"none", "string", "number", "integer", "boolean", "array", "object",
     "other"}
LeafSchemas ==
    {Schema(ty, NoProperties, FALSE, {}, << >>) : ty \in TypeNames}
    \cup {NullSchema}
RequiredLists == {<<FALSE, {}>>, <<TRUE, {}>>, <<TRUE, {"a"}>>}
ObjectSchemas ==
    {Schema("object", [k \in {"a"} |-> l], r[1], r[2], << >>) :
        l \in LeafSchemas, r \in RequiredLists}
    \cup {Schema("object", [k \in Keys |-> IF k = "a" THEN l ELSE m],
                 r[1], r[2], << >>) :
            l \in {Schema(ty, NoProperties, FALSE, {}, << >>) :
                      ty \in {"string", "other"}},
            m \in {Schema(ty, NoProperties, FALSE, {}, << >>) :
                      ty \in {"number", "none"}},
            r \in RequiredLists \cup {<<TRUE, Keys>>}}
ArraySchemas ==
    {Schema("array", NoProperties, FALSE, {}, <<l>>) : l \in LeafSchemas}
NestedSchemas ==
    {Schema("object", [k \in {"a"} |-> n], TRUE, {"a"}, << >>) :
        n \in ArraySchemas \cup
              {o \in ObjectSchemas : o.hasRequired /\ o.required = {"a"}}}
Schemas == LeafSchemas \cup ObjectSchemas \cup ArraySchemas \cup NestedSchemas

\* zod validators.  z: the kind; elem: the element validator of z.array;
\* shape: the shape of z.object; inner: what z.optional wraps.
Zod(kind) == [z |-> kind, elem |-> << >>, shape |-> NoProperties, inner |-> << >>]
ZodArray(e) == [Zod("array") EXCEPT !.elem = <<e>>]
ZodObject(sh) == [Zod("object") EXCEPT !.shape = sh]
ZodOptional(v) == [Zod("optional") EXCEPT !.inner = <<v>>]
\* A TypeError raised during the translation.
Threw == Zod("TypeError")

\* Variant: every declared property stays required.
isRequiredAlways(schema, key) == TRUE

\* Variant: without a required list every declared property is required.
isRequiredByDefault(schema, key) ==
    ~schema.hasRequired \/ key \in schema.required

\* schema.required?.includes(key)
isRequired(schema, key) == schema.hasRequired /\ key \in schema.required

RECURSIVE convertSchemaToZod(_)
RECURSIVE convertPropertyToZod(_)

\* convertSchemaToZod(schema)
convertSchemaToZod(schema) ==
    IF schema.isNull \/ schema.type = "none" THEN ZodObject(NoProperties)
    ELSE IF schema.type = "object"
    THEN LET shape == [key \in DOMAIN schema.properties |->
                          LET v == convertPropertyToZod(schema.properties[key])
                          IN  IF v = Threw \/ isRequired(schema, key) THEN v
                              ELSE ZodOptional(v)]
         IN  IF \E key \in DOMAIN shape : shape[key] = Threw THEN Threw
             ELSE ZodObject(shape)
    ELSE Zod("any")

\* convertPropertyToZod(schema): `schema.type` of a null schema is a TypeError
convertPropertyToZod(schema) ==
    IF schema.isNull THEN Threw
    ELSE CASE schema.type = "string" -> Zod("string")
           [] schema.type = "number" -> Zod("number")
           [] schema.type = "integer" -> Zod("int")
           [] schema.type = "boolean" -> Zod("boolean")
           [] schema.type = "array" ->
                IF schema.items = << >> THEN ZodArray(Zod("any"))
                ELSE LET e == convertPropertyToZod(schema.items[1])
                     IN  IF e = Threw THEN Threw ELSE ZodArray(e)
           [] schema.type = "object" -> convertSchemaToZod(schema)
           [] OTHER -> Zod("any")

\* JSON values, and `undefined` for the value of a key an object lacks.
Value(kind) == [kind |-> kind, elems |-> << >>, fields |-> NoProperties]
ArrayValue(es) == [Value("array") EXCEPT !.elems = es]
ObjectValue(fs) == [Value("object") EXCEPT !.fields = fs]
UndefinedValue == Value("undefined")
Primitives == {Value(k) : k \in {"string", "int", "float", "boolean", "null"}}
FlatObjects ==
    {ObjectValue(NoProperties)}
    \cup {ObjectValue([k \in {key} |-> v]) : key \in Keys, v \in Primitives}
    \cup {ObjectValue([k \in Keys |-> IF k = "a" THEN v ELSE w]) :
            v \in {Value("string"), Value("int")},
            w \in {Value("int"), Value("null")}}
Arrays == {ArrayValue(<< >>), ArrayValue(<<Value("string")>>),
           ArrayValue(<<Value("string"), Value("int")>>)}
Values ==
    Primitives \cup FlatObjects \cup Arrays
    \cup {ObjectValue([k \in {"a"} |-> v]) :
            v \in Arrays \cup {ObjectValue(NoProperties),
                               ObjectValue([k \in {"a"} |-> Value("string")])}}

\* validator.safeParse(value).success, as zod defines it: z.object accepts
\* objects only (arrays are not objects to it), ignores the keys its shape
\* does not name and validates `undefined` for a key the object lacks;
\* z.any and z.optional accept `undefined`.
RECURSIVE accepts(_, _)
accepts(v, x) ==
    CASE v.z = "any" -> TRUE
      [] v.z = "optional" -> x.kind = "undefined" \/ accepts(v.inner[1], x)
      [] v.z = "string" -> x.kind = "string"
      [] v.z = "number" -> x.kind \in {"int", "float"}
      [] v.z = "int" -> x.kind = "int"
      [] v.z = "boolean" -> x.kind = "boolean"
      [] v.z = "array" ->
            /\ x.kind = "array"
            /\ \A i \in 1..Len(x.elems) : accepts(v.elem[1], x.elems[i])
      [] v.z = "object" ->
            /\ x.kind = "object"
            /\ \A key \in DOMAIN v.shape :
                  accepts(v.shape[key],
                          IF key \in DOMAIN x.fields THEN x.fields[key]
                          ELSE UndefinedValue)
      [] OTHER -> FALSE

\* No tool converted yet.
NoConversion ==
    [schema |-> NullSchema, parameters |-> Zod("none"),
     value |-> UndefinedValue, verdict |-> "none"]

\* ------------------------------------------------------------------ state
NoArg == [name |-> "", arguments |-> ""]
NoStart == [st |-> "none", err |-> ""]
NoReturn == [st |-> "none", val |-> ""]

\* interface MCPServer, with the provider process and the callers' promises:
\*   written   the requests passed to stdin.write, in order.  Once the
\*             process has exited Node has destroyed the stdin stream:
\*             write() then drops the line, does not throw and calls no
\*             listener of the manager (none is attached to stdin).
\*   outcome   the state of the promise sendRequest returned for each of them
\*   returned  what the tool handler awaiting a tools/call gave its caller
\*   start     the state of the startServer call that constructed the session
NoSession ==
    [command |-> "", proc |-> "none", killSent |-> FALSE, nextId |-> 1,
     pendingRequests |-> {}, tools |-> << >>, written |-> << >>,
     outcome |-> << >>, returned |-> << >>, start |-> NoStart]

\* main.ts: the Context made by main() and main's own position.
\*   aiThread  context.aiThread: null (set FALSE), or the thread createAIThread
\*             made, with the tool descriptors it was given
\*   config    config.mcpServers, the commands to start at launch
\*   launched  the number of iterations of main's start loop that are over
\*   repl      repl.start() was reached
NoThread == [set |-> FALSE, tools |-> << >>]
NoHost == [aiThread |-> NoThread, config |-> << >>, launched |-> 0, repl |-> FALSE]

VARIABLES
    servers,    \* MCPManager.servers: command -> session (0: no entry)
    sessions,   \* every MCPServer object constructed so far
    spawned,    \* number of provider processes spawned
    catalog,    \* the array of tool descriptors the host holds
    conversion, \* a tool's inputSchema, the validator getAllTools made of it
                \* and the host's validation of a value with it
    host        \* main(): its context and its position

vars == <<servers, sessions, spawned, catalog, conversion, host>>

Init ==
    /\ servers = [c \in Commands |-> 0]
    /\ sessions = [s \in SessionIds |-> NoSession]
    /\ spawned = 0
    /\ catalog = << >>
    /\ conversion = NoConversion
    /\ host = NoHost

\* getActiveServers(): Array.from(this.servers.keys())
getActiveServers == {c \in Commands : servers[c] # 0}

\* ------------------------------------------------------------ sendRequest
\* Variant: the id is not advanced, so it is used again.
sendRequestSameId(sv, method, arg) ==
    [sv EXCEPT
        !.pendingRequests = @ \cup {sv.nextId},
        !.written = Append(@, [id |-> sv.nextId, method |-> method, arg |-> arg]),
        !.outcome = Append(@, "pending"),
        !.returned = Append(@, NoReturn)]

\* Variant: the request is written without an entry in the pending map.
sendRequestUnregistered(sv, method, arg) ==
    [sv EXCEPT
        !.nextId = @ + 1,
        !.written = Append(@, [id |-> sv.nextId, method |-> method, arg |-> arg]),
        !.outcome = Append(@, "pending"),
        !.returned = Append(@, NoReturn)]

\* const id = server.nextId++; pendingRequests.set(id, ...); stdin.write(...)
sendRequest(sv, method, arg) ==
    [sv EXCEPT
        !.nextId = @ + 1,
        !.pendingRequests = @ \cup {sv.nextId},
        !.written = Append(@, [id |-> sv.nextId, method |-> method, arg |-> arg]),
        !.outcome = Append(@, "pending"),
        !.returned = Append(@, NoReturn)]

\* ---------------------------------------------------------- handleMessage
\* Variant: responses are taken to arrive in request order.
PendingLookupOldest(sv, line) ==
    IF sv.pendingRequests = {} THEN 0
    ELSE CHOOSE i \in sv.pendingRequests : \A j \in sv.pendingRequests : i <= j

\* pendingRequests.get(message.id)
PendingLookup(sv, line) ==
    IF line.id \in sv.pendingRequests THEN line.id ELSE 0

\* message.error ? pending.reject(new Error(message.error.message))
\*               : pending.resolve(message.result)
SettlementOf(line) ==
    IF line.body = "error"
    THEN [st |-> "rejected", val |-> line.val]
    ELSE [st |-> "resolved", val |-> line.val]

\* Variant: a line that does not parse is taken for the answer to the
\* oldest request in flight.
SettledIdLenient(sv, line) ==
    IF line.type = "response" THEN PendingLookup(sv, line)
    ELSE IF line.type = "malformed" THEN PendingLookupOldest(sv, line)
    ELSE 0

\* The id handleMessage settles for this line (0: none): only a message
\* with an id is looked up; a malformed line throws in JSON.parse.
SettledId(sv, line) ==
    IF line.type = "response" THEN PendingLookup(sv, line) ELSE 0

\* Variant: the continuation is looked up among all requests ever sent.
handleMessageKeepAll(sv, line) ==
    IF line.type = "response" /\ line.id \in 1..Len(sv.written)
    THEN [sv EXCEPT
            !.outcome[line.id] = SettlementOf(line).st,
            !.pendingRequests = @ \ {line.id}]
    ELSE sv

\* Variant: the entry of a settled request stays in the pending map.
handleMessageNoDelete(sv, line) ==
    IF SettledId(sv, line) # 0 /\ sv.outcome[SettledId(sv, line)] = "pending"
    THEN [sv EXCEPT !.outcome[SettledId(sv, line)] = SettlementOf(line).st]
    ELSE sv

\* The session after handleMessage(server, message).
handleMessage(sv, line) ==
    IF SettledId(sv, line) # 0
    THEN [sv EXCEPT
            !.outcome[SettledId(sv, line)] = SettlementOf(line).st,
            !.pendingRequests = @ \ {line.id}]
    ELSE sv

\* ----------------------------------------------------- startServer, resumed
\* listTools(server): await sendRequest(server, "tools/list") inside try/catch
listToolsBegin(sv) ==
    sendRequest([sv EXCEPT !.start = [st |-> "tools", err |-> ""]],
                "tools/list", NoArg)

\* Variant: the tools are listed whatever initialize answered.
afterInitializeAnyway(sv, o) == listToolsBegin(sv)

\* startServer after `await this.sendRequest(server, "initialize", ...)`
afterInitialize(sv, o) ==
    IF o.st = "resolved"
    THEN listToolsBegin(sv)
    ELSE [sv EXCEPT !.start = [st |-> "rejected", err |-> o.val.message]]

\* Variant: the tools of the result are not stored.
toolsOfDropped(sv, o) == sv.tools

\* server.tools = result.tools || []   (result undefined: TypeError, caught)
toolsOf(sv, o) ==
    IF o.st = "resolved" /\ o.val.tag = "tools" THEN o.val.tools
    ELSE IF o.st = "resolved" /\ o.val.tag # "undefined" THEN << >>
    ELSE sv.tools

\* Variant: listTools has no try/catch, a failed tools/list fails startServer.
afterToolsListStrict(sv, o) ==
    IF o.st = "rejected"
    THEN [sv EXCEPT !.start = [st |-> "rejected", err |-> o.val.message]]
    ELSE [sv EXCEPT !.tools = toolsOf(sv, o),
                    !.start = [st |-> "resolved", err |-> ""]]

\* listTools after its await, then the end of startServer
afterToolsList(sv, o) ==
    [sv EXCEPT !.tools = toolsOf(sv, o),
               !.start = [st |-> "resolved", err |-> ""]]

\* JSON.stringify(result)
stringify(v) ==
    IF v.tag = "plain" THEN "{}"
    ELSE IF v.tag = "undefined" THEN "null"
    ELSE IF v.tag = "tools" THEN "{tools:[..]}"
    ELSE IF v.tag = "scalarContent" THEN "{content:..}"
    ELSE "{content:[..]}"

\* Array.prototype.join("\n") of an array of strings
RECURSIVE join(_)
join(ts) ==
    IF ts = << >> THEN ""
    ELSE IF Len(ts) = 1 THEN ts[1]
    ELSE ts[1] \o "\n" \o join(Tail(ts))

\* Variant: the blocks are not filtered by their type.
textBlocksUnfiltered(cl) == cl

\* result.content.filter((c) => c.type === "text")
textBlocks(cl) == SelectSeq(cl, LAMBDA c : c.type = "text")

\* .filter(...).map((c) => c.text).join("\n")
extractedText(cl) ==
    join([i \in 1..Len(textBlocks(cl)) |-> textBlocks(cl)[i].text])

\* handler(params) after `await this.sendRequest(server, "tools/call", ...)`:
\* result.content of an undefined result is a TypeError; errors are rethrown.
handlerReturn(o) ==
    IF o.st = "rejected" THEN [st |-> "threw", val |-> o.val.message]
    ELSE IF o.val.tag = "undefined" THEN [st |-> "threw", val |-> "TypeError"]
    ELSE IF o.val.tag = "content"
    THEN [st |-> "returned", val |-> extractedText(o.val.content)]
    ELSE [st |-> "returned", val |-> stringify(o.val)]

\* Variant: a rejected tools/call is sent once more.
afterToolsCallRetry(sv, id, o) ==
    IF o.st = "rejected"
    THEN sendRequest([sv EXCEPT !.returned[id] = handlerReturn(o)],
                     "tools/call", sv.written[id].arg)
    ELSE [sv EXCEPT !.returned[id] = handlerReturn(o)]

afterToolsCall(sv, id, o) == [sv EXCEPT !.returned[id] = handlerReturn(o)]

\* The continuation of the caller whose request `id` was just settled with o.
resume(sv, id, o) ==
    IF id = 0 THEN sv
    ELSE LET m == sv.written[id].method
         IN  IF m = "initialize" THEN afterInitialize(sv, o)
             ELSE IF m = "tools/list" THEN afterToolsList(sv, o)
             ELSE afterToolsCall(sv, id, o)

\* ------------------------------------------------------------- operations
\* Variant: the check for a running server is missing.
alreadyRunningNever(c) == FALSE

\* if (this.servers.has(command)) return;
alreadyRunning(c) == servers[c] # 0

\* this.servers.set(command, server), placed before the handshake
registerAtStart(c, s) == [servers EXCEPT ![c] = s]

\* The MCPServer object startServer constructs, after its first sendRequest.
newSession(c) ==
    sendRequest([NoSession EXCEPT !.command = c, !.proc = "running",
                                  !.start = [st |-> "init", err |-> ""]],
                "initialize", NoArg)

\* spawn() gave no stdout: throw new Error("Server process stdout is null");
\* no handler is attached to that process and nothing refers to it.
stdoutNull(c) ==
    [NoSession EXCEPT !.command = c, !.proc = "closed",
                      !.start = [st |-> "rejected", err |-> "stdout"]]

\* startServer(command) up to its first await; at most n processes in all
startServerUpTo(c, n) ==
    IF alreadyRunning(c)
    THEN UNCHANGED vars
    ELSE /\ spawned < n
         /\ spawned' = spawned + 1
         /\ \E stdoutOk \in BOOLEAN :
              IF stdoutOk
              THEN /\ sessions' = [sessions EXCEPT ![spawned + 1] = newSession(c)]
                   /\ servers' = registerAtStart(c, spawned + 1)
              ELSE /\ sessions' = [sessions EXCEPT ![spawned + 1] = stdoutNull(c)]
                   /\ servers' = servers
         /\ UNCHANGED <<catalog, conversion, host>>

startServer(c) == startServerUpTo(c, MaxSessions)

\* Variant: the session is found by its command among all sessions.
stopTargetByCommand(c) ==
    IF servers[c] # 0 THEN servers[c]
    ELSE IF \E s \in SessionIds : sessions[s].command = c /\ sessions[s].proc = "running"
         THEN CHOOSE s \in SessionIds :
                sessions[s].command = c /\ sessions[s].proc = "running"
         ELSE 0

\* const server = this.servers.get(command); if (!server) return;
stopTarget(c) == servers[c]

\* Variant: a shutdown request is written to the provider before the kill.
killedAfterShutdown(sv) ==
    [sendRequest(sv, "shutdown", NoArg) EXCEPT !.killSent = TRUE]

\* server.process.kill() has returned: the signal is on its way (or the
\* process was already gone); nothing is written and nothing is awaited.
killed(sv) == [sv EXCEPT !.killSent = TRUE]

\* stopServer(command); raises: server.process.kill() throws, which rejects
\* the call before this.servers.delete(command) is reached.
stopServerKill(c, raises) ==
    IF stopTarget(c) = 0 \/ raises
    THEN UNCHANGED vars
    ELSE /\ sessions' = [sessions EXCEPT ![stopTarget(c)] = killed(@)]
         /\ servers' = [servers EXCEPT ![c] = 0]
         /\ UNCHANGED <<spawned, catalog, conversion, host>>

stopServer(c) == \E raises \in BOOLEAN : stopServerKill(c, raises)

\* Variant: the iteration ends after the first key.
reachedFirstOnly(c, bad) ==
    /\ servers[c] \notin bad
    /\ \A d \in getActiveServers : servers[c] <= servers[d]

\* for (const command of this.servers.keys()) await this.stopServer(command):
\* the keys come in the order of their insertion, which is the order in
\* which their sessions were constructed, and a key deleted by an iteration
\* does not disturb the iterator.  The iterations reached are those up to
\* the first whose stopServer rejects: nothing catches it inside the loop.
reached(c, bad) ==
    \A d \in getActiveServers : servers[d] <= servers[c] => servers[d] \notin bad

\* The sessions and the registry when a stopAllServers() has settled;
\* bad: the sessions whose process.kill() throws
sessionsAfterStopAll(bad) ==
    [s \in SessionIds |->
        IF \E c \in getActiveServers : servers[c] = s /\ reached(c, bad)
        THEN killed(sessions[s])
        ELSE sessions[s]]

serversAfterStopAll(bad) ==
    [c \in Commands |->
        IF c \in getActiveServers /\ ~reached(c, bad) THEN servers[c] ELSE 0]

stopAllServersKill(bad) ==
    /\ sessions' = sessionsAfterStopAll(bad)
    /\ servers' = serversAfterStopAll(bad)
    /\ UNCHANGED <<spawned, catalog, conversion, host>>

stopAllServers ==
    \E bad \in SUBSET {servers[c] : c \in getActiveServers} :
        stopAllServersKill(bad)

\* readline.on("line", ...): one line of the provider's stdout.  Lines the
\* provider wrote before it exited are still read after the exit event.
\* Variant: one reader and one pending map for all provider processes: the
\* line is handled by every session that is reading.
onLineShared(s, line) ==
    /\ sessions[s].proc \in {"running", "exited"}
    /\ sessions' = [t \in SessionIds |->
          IF sessions[t].proc \in {"running", "exited"}
          THEN resume(handleMessage(sessions[t], line),
                      SettledId(sessions[t], line), SettlementOf(line))
          ELSE sessions[t]]
    /\ UNCHANGED <<servers, spawned, catalog, conversion, host>>

\* rl.on("line", ...) of the session's own readline interface
onLine(s, line) ==
    /\ sessions[s].proc \in {"running", "exited"}
    /\ sessions' = [sessions EXCEPT ![s] =
          resume(handleMessage(sessions[s], line),
                 SettledId(sessions[s], line), SettlementOf(line))]
    /\ UNCHANGED <<servers, spawned, catalog, conversion, host>>

\* this.servers.delete(command), in the exit and in the error handler
deleteOnEvent(s) == [servers EXCEPT ![sessions[s].command] = 0]

\* serverProcess.on("error", ...): the process may or may not go on running
onProcessError(s) ==
    /\ sessions[s].proc = "running"
    /\ servers' = deleteOnEvent(s)
    /\ UNCHANGED <<sessions, spawned, catalog, conversion, host>>

\* Variant: the exit handler rejects the requests in flight.
afterExitRejecting(sv) ==
    [sv EXCEPT !.proc = "exited", !.pendingRequests = {},
               !.outcome = [i \in 1..Len(sv.outcome) |->
                               IF sv.outcome[i] = "pending" THEN "rejected"
                               ELSE sv.outcome[i]]]

\* The session once its process has exited: the exit handler does not
\* touch the MCPServer object.
afterExit(sv) == [sv EXCEPT !.proc = "exited"]

\* serverProcess.on("exit", ...)
onProcessExit(s) ==
    /\ sessions[s].proc = "running"
    /\ sessions' = [sessions EXCEPT ![s] = afterExit(@)]
    /\ servers' = deleteOnEvent(s)
    /\ UNCHANGED <<spawned, catalog, conversion, host>>

\* The provider's stdout reaches end of file: no line is read afterwards.
stdoutEnd(s) ==
    /\ sessions[s].proc = "exited"
    /\ sessions' = [sessions EXCEPT ![s].proc = "closed"]
    /\ UNCHANGED <<servers, spawned, catalog, conversion, host>>

\* const convertedTool = { name: `mcp_${tool.name}`, ..., handler }: the
\* handler closes over the MCPServer object and the tool it was made for.
convertedTool(s, t) == [name |-> "mcp_" \o t, server |-> s, tool |-> t]

\* Variant: only the first tool of each server is converted.
toolSlotsFirstOnly ==
    {<<servers[c], 1>> : c \in {d \in getActiveServers :
                                    Len(sessions[servers[d]].tools) > 0}}

\* for (const [command, server] of this.servers) for (const tool of
\* server.tools): the iterations, as <<session, index in its tool list>>
toolSlots ==
    UNION {{<<servers[c], i>> : i \in 1..Len(sessions[servers[c]].tools)} :
           c \in getActiveServers}

\* The order of the iterations: servers in the order of their insertion
\* (that of their construction), the tools of a server in list order.
slotBefore(a, b) == a[1] < b[1] \/ (a[1] = b[1] /\ a[2] < b[2])

\* getAllTools(): tools.push(convertedTool) in every iteration
getAllTools ==
    [k \in 1..Cardinality(toolSlots) |->
        LET sl == CHOOSE a \in toolSlots :
                      Cardinality({b \in toolSlots : slotBefore(b, a)}) = k - 1
        IN  convertedTool(sl[1], sessions[sl[1]].tools[sl[2]])]

\* createAIThread: the host takes the catalog for its next thread
hostGetAllTools ==
    /\ catalog' = getAllTools
    /\ UNCHANGED <<servers, sessions, spawned, conversion, host>>

\* handler(params): await this.sendRequest(server, "tools/call",
\*                      { name: tool.name, arguments: params })
invokeTool(d, p) ==
    /\ sessions[d.server].nextId <= MaxId
    /\ sessions' = [sessions EXCEPT ![d.server] =
          sendRequest(@, "tools/call", [name |-> d.tool, arguments |-> p])]
    /\ UNCHANGED <<servers, spawned, catalog, conversion, host>>

\* const zodSchema = this.convertSchemaToZod(tool.inputSchema), for one tool
\* of the loop of getAllTools
convertTool(schema) ==
    /\ conversion' = [schema |-> schema, parameters |-> convertSchemaToZod(schema),
                      value |-> UndefinedValue, verdict |-> "none"]
    /\ UNCHANGED <<servers, sessions, spawned, catalog, host>>

\* The host validates the arguments of a call with descriptor.parameters.
validate(x) ==
    /\ conversion.parameters \notin {Zod("none"), Threw}
    /\ conversion' = [conversion EXCEPT
          !.value = x,
          !.verdict = IF accepts(conversion.parameters, x) THEN "accept"
                      ELSE "reject"]
    /\ UNCHANGED <<servers, sessions, spawned, catalog, host>>

\* ------------------------------------------------------------ the host
\* context.aiThread = null
discarded(h) == [h EXCEPT !.aiThread = NoThread]

\* createAIThread(context): const mcpTools = mcpManager.getAllTools();
\* context.aiThread = createThread({ ..., tools: mcpTools })
createAIThread(h) == [h EXCEPT !.aiThread = [set |-> TRUE, tools |-> getAllTools]]

\* handleChatMessage(context, message), up to the message being added to
\* the thread; hasKey: OPENROUTER_API_KEY is set (createAIThread returns
\* null without it and the message is not processed).
handleChatMessage(hasKey) ==
    /\ host.repl
    /\ host' = IF ~host.aiThread.set /\ hasKey THEN createAIThread(host)
                ELSE host
    /\ UNCHANGED <<servers, sessions, spawned, catalog, conversion>>

\* The manager's part of a startServer(command) call that spawns a process,
\* up to its first await; at most n processes in all.
spawnServer(c, n) ==
    /\ ~alreadyRunning(c)
    /\ spawned < n
    /\ spawned' = spawned + 1
    /\ \E stdoutOk \in BOOLEAN :
          IF stdoutOk
          THEN /\ sessions' = [sessions EXCEPT ![spawned + 1] = newSession(c)]
               /\ servers' = registerAtStart(c, spawned + 1)
          ELSE /\ sessions' = [sessions EXCEPT ![spawned + 1] = stdoutNull(c)]
               /\ servers' = servers

\* The host after an awaited startServer(command) has settled with st:
\* resolved, the thread is discarded (in the /mcp handler and in main's
\* loop); rejected, the error is printed.  Before repl.start() the call is
\* an iteration of main's loop, which then goes on.
afterStartServer(h, st) ==
    [h EXCEPT !.aiThread = IF st = "resolved" THEN NoThread ELSE @,
              !.launched = IF h.repl THEN @ ELSE @ + 1]

\* "/mcp <command>": await mcpManager.startServer(command), up to the
\* first await of startServer or, when it has none, to the end.
mcpStart(c, n) ==
    /\ host.repl
    /\ IF alreadyRunning(c)
       THEN /\ host' = afterStartServer(host, "resolved")
            /\ UNCHANGED <<servers, sessions, spawned>>
       ELSE /\ spawnServer(c, n)
            /\ host' = host
    /\ UNCHANGED <<catalog, conversion>>

\* "/mcp stop <command>": await mcpManager.stopServer(command)
mcpStop(c) ==
    /\ host.repl
    /\ stopServer(c)

\* "/mcp stop-all": await mcpManager.stopAllServers()
mcpStopAll ==
    /\ host.repl
    /\ stopAllServers

\* The start settled by this step, if there is one ("none" otherwise).
startSettled(before, after) ==
    IF before.start.st \in {"init", "tools"}
          /\ after.start.st \in {"resolved", "rejected"}
    THEN after.start.st
    ELSE "none"

\* A line of a provider is read while the host awaits: the continuations
\* run up to the host's own, after its `await mcpManager.startServer(...)`.
hostLine(s, line) ==
    /\ sessions[s].proc \in {"running", "exited"}
    /\ sessions' = [sessions EXCEPT ![s] =
          resume(handleMessage(sessions[s], line),
                 SettledId(sessions[s], line), SettlementOf(line))]
    /\ host' = IF startSettled(sessions[s], sessions'[s]) = "none" THEN host
                ELSE afterStartServer(host, startSettled(sessions[s], sessions'[s]))
    /\ UNCHANGED <<servers, spawned, catalog, conversion>>

\* main(): the startServer call main's loop is waiting for has not settled
mainAwaits ==
    \E s \in SessionIds : sessions[s].start.st \in {"init", "tools"}

\* main(): for (const mcpCommand of config.mcpServers)
\*             await mcpManager.startServer(mcpCommand).then(...).catch(...)
\* one iteration, up to the first await of startServer or, when it has
\* none (already running, stdout null), to the end of the iteration.
mainStartServer ==
    /\ ~host.repl
    /\ ~mainAwaits
    /\ host.launched < Len(host.config)
    /\ LET c == host.config[host.launched + 1]
       IN  IF alreadyRunning(c)
           THEN /\ host' = afterStartServer(host, "resolved")
                /\ UNCHANGED <<servers, sessions, spawned>>
           ELSE /\ spawnServer(c, Len(host.config))
                /\ host' = IF sessions'[spawned + 1].start.st = "rejected"
                            THEN afterStartServer(host, "rejected")
                            ELSE host
    /\ UNCHANGED <<catalog, conversion>>

\* main(): createREPL(...); ...; repl.start(), after the loop
mainReplStart ==
    /\ ~host.repl
    /\ ~mainAwaits
    /\ host.launched = Len(host.config)
    /\ host' = [host EXCEPT !.repl = TRUE]
    /\ UNCHANGED <<servers, sessions, spawned, catalog, conversion>>

\* ---------------------------------------------------------- specifications
\* The registry and the handshake, over MaxSessions provider processes.  A
\* tools/call only adds to the pending map of a session whose handshake is
\* over, and the end of a provider's stdout runs no code of the manager:
\* SessionSpec covers both.  Of the ids a session has not allocated, which
\* handleMessage cannot tell apart, the provider uses 0 and the next one.
Next ==
    \/ \E c \in Commands : startServer(c)
    \/ \E c \in Commands : stopServer(c)
    \/ stopAllServers
    \/ \E s \in SessionIds, line \in Lines :
          line.id <= sessions[s].nextId /\ onLine(s, line)
    \/ \E s \in SessionIds : onProcessError(s)
    \/ \E s \in SessionIds : onProcessExit(s)

Spec == Init /\ [][Next]_vars

\* One provider process, with the host's tool invocations on it: up to
\* MaxId requests are in flight on the session.
SessionNext ==
    \/ \E c \in Commands : startServerUpTo(c, 1)
    \/ \E c \in Commands : stopServer(c)
    \/ stopAllServers
    \/ \E line \in Lines : onLine(1, line)
    \/ onProcessError(1)
    \/ onProcessExit(1)
    \/ stdoutEnd(1)
    \/ hostGetAllTools
    \/ \E i \in 1..Len(catalog), p \in ParamVals : invokeTool(catalog[i], p)

SessionSpec == Init /\ [][SessionNext]_vars

\* One provider process that answers the requests outstanding, a tools/call
\* also with results that carry content. (ToolCallSpec)
\*
\* Two provider processes and the host's catalog over them.  The providers
\* answer the requests that are outstanding, a tools/call with a result.
CatalogAnswers(s) ==
    {line \in ResponseLines :
        /\ line.id \in sessions[s].pendingRequests
        /\ sessions[s].written[line.id].method = "tools/call"
              => line.val = PlainResult}

ToolCallNext ==
    \/ \E c \in Commands : startServerUpTo(c, 1)
    \/ \E line \in CallLines :
          line.id \in sessions[1].pendingRequests /\ onLine(1, line)
    \/ hostGetAllTools
    \/ \E i \in 1..Len(catalog), p \in ParamVals : invokeTool(catalog[i], p)

ToolCallSpec == Init /\ [][ToolCallNext]_vars

\* The translation of tool input schemas: getAllTools converts the schema of
\* a tool, the host validates values with the validator it got.
SchemaNext ==
    \/ \E schema \in Schemas : convertTool(schema)
    \/ \E x \in Values : validate(x)

SchemaSpec == Init /\ [][SchemaNext]_vars

CatalogNext ==
    \/ \E c \in Commands : startServerUpTo(c, 2)
    \/ \E c \in Commands : stopServer(c)
    \/ \E s \in 1..2 : \E line \in CatalogAnswers(s) : onLine(s, line)
    \/ hostGetAllTools
    \/ \E i \in 1..Len(catalog), p \in ParamVals : invokeTool(catalog[i], p)

CatalogSpec == Init /\ [][CatalogNext]_vars

\* The host at run time: /mcp commands and chat messages at the prompt,
\* over two provider processes that answer the requests outstanding.
HostNext ==
    \/ mainReplStart
    \/ \E c \in Commands : mcpStart(c, 2)
    \/ \E c \in Commands : mcpStop(c)
    \/ mcpStopAll
    \/ \E s \in 1..2 : \E line \in CatalogAnswers(s) : hostLine(s, line)
    \/ \E hasKey \in BOOLEAN : handleChatMessage(hasKey)

HostSpec == Init /\ [][HostNext]_vars

\* The launch of the program with servers configured: main's loop and
\* repl.start(), which run when they can; the providers answer, fail or
\* exit as they like, or do nothing.
Configs == {<<"c1">>, <<"c1", "c2">>, <<"c2", "c2">>}

LaunchInit ==
    /\ servers = [c \in Commands |-> 0]
    /\ sessions = [s \in SessionIds |-> NoSession]
    /\ spawned = 0
    /\ catalog = << >>
    /\ conversion = NoConversion
    /\ \E config \in Configs : host = [NoHost EXCEPT !.config = config]

LaunchNext ==
    \/ mainStartServer
    \/ mainReplStart
    \/ \E s \in 1..2 : \E line \in Lines :
          line.id <= sessions[s].nextId /\ hostLine(s, line)
    \/ \E s \in 1..2 : onProcessError(s)
    \/ \E s \in 1..2 : onProcessExit(s)

LaunchSpec ==
    /\ LaunchInit
    /\ [][LaunchNext]_vars
    /\ WF_vars(mainStartServer)
    /\ WF_vars(mainReplStart)

\* ------------------------------------------------------------------ claims
Allocated == 1..spawned
Registered(s) == s # 0 /\ servers[sessions[s].command] = s
MethodOf(s, i) == sessions[s].written[i].method
HasWritten(s, m) ==
    \E i \in 1..Len(sessions[s].written) : MethodOf(s, i) = m

\* C1: startServer is idempotent per command.  A startServer(c) made while
\* c has a registry entry, also one whose handshake is still in progress,
\* spawns nothing and changes nothing; a process is only ever spawned for a
\* command without an entry, the spawn leaves the entries of the other
\* commands alone, and two registered commands have two different sessions,
\* each constructed for its command.
C1_StartServerIdempotent ==
    [][/\ \A c \in Commands :
            (startServer(c) /\ servers[c] # 0)
                => UNCHANGED <<servers, sessions, spawned>>
       /\ spawned' # spawned =>
            LET c == sessions'[spawned'].command
            IN  /\ spawned' = spawned + 1
                /\ servers[c] = 0
                /\ servers'[c] \in {0, spawned'}
                /\ \A d \in Commands \ {c} : servers'[d] = servers[d]
       /\ \A c \in Commands :
            servers'[c] # 0 => sessions'[servers'[c]].command = c]_vars

C1_Witness ==
    /\ spawned = 2
    /\ servers["c1"] # 0 /\ servers["c2"] # 0 /\ servers["c1"] # servers["c2"]
    /\ sessions[servers["c1"]].start.st = "init"

\* C2: every command in getActiveServers() belongs to a session whose
\* handshake is over: initialize has succeeded and tools/list has finished.
C2_RegisteredOnlyAfterHandshake ==
    \A c \in getActiveServers : sessions[servers[c]].start.st = "resolved"

\* C3: a session whose initialize was answered with an error (its
\* startServer call failed) is not in the registry.
C3_FailedInitializeNotRegistered ==
    \A s \in Allocated :
        sessions[s].start.st = "rejected" => ~Registered(s)

\* C4: when the provider has exited without answering initialize and its
\* output has ended, the startServer call has been rejected and the command
\* is not registered to that session.
C4_ExitBeforeInitializeRejects ==
    \A s \in Allocated :
        (sessions[s].proc = "closed" /\ HasWritten(s, "initialize")
            /\ sessions[s].outcome[1] = "pending")
        => (sessions[s].start.st = "rejected" /\ ~Registered(s))

\* C5: a line read from a session settles at most the request whose id is
\* the id of the line, with the result or the error of that line, in
\* whatever order the responses of the requests in flight arrive; every
\* other request of the session keeps its state.
Correlated(s, line) ==
    LET sv == sessions[s]
        sw == sessions'[s]
    IN  /\ \A j \in 1..Len(sv.written) :
              j # line.id =>
                  /\ sw.outcome[j] = sv.outcome[j]
                  /\ sw.returned[j] = sv.returned[j]
        /\ (line.type = "response" /\ line.id \in sv.pendingRequests) =>
              /\ sw.outcome[line.id] =
                    IF line.body = "error" THEN "rejected" ELSE "resolved"
              /\ sv.written[line.id].method = "tools/call" =>
                    sw.returned[line.id] =
                        IF line.body = "error"
                        THEN [st |-> "threw", val |-> line.val.message]
                        ELSE IF line.body = "none"
                        THEN [st |-> "threw", val |-> "TypeError"]
                        ELSE [st |-> "returned", val |-> stringify(line.val)]

C5_ResponsesCorrelatedById ==
    [][sessions' # sessions =>
          \A line \in Lines : onLine(1, line) => Correlated(1, line)]_vars

\* two tools/call in flight, the later one answered first
C5_Witness ==
    /\ Len(sessions[1].written) = 4
    /\ MethodOf(1, 3) = "tools/call" /\ MethodOf(1, 4) = "tools/call"
    /\ sessions[1].outcome[3] = "pending"
    /\ sessions[1].outcome[4] = "rejected"
    /\ sessions[1].returned[4].st = "threw"

\* C6: the k-th request written on a session has id k (ids start at 1, go
\* up by one and are never used twice), and the counter is one past the
\* last id, whatever was answered, rejected or left unanswered in between.
C6_RequestIdsSequential ==
    \A s \in Allocated :
        /\ sessions[s].nextId = Len(sessions[s].written) + 1
        /\ \A i \in 1..Len(sessions[s].written) : sessions[s].written[i].id = i

C6_Witness ==
    /\ Len(sessions[1].written) = 4
    /\ sessions[1].outcome[2] = "resolved"
    /\ sessions[1].outcome[3] = "rejected"
    /\ sessions[1].outcome[4] = "pending"

IsAnswerTo(s, line, m) ==
    /\ line.type = "response"
    /\ line.id \in sessions[s].pendingRequests
    /\ MethodOf(s, line.id) = m

C8_ToolsListErrorNotFatal ==
    [][\A line \in Lines :
          (IsAnswerTo(1, line, "tools/list") /\ line.body = "error"
              /\ onLine(1, line))
          => /\ sessions'[1].start.st = "resolved"
             /\ sessions'[1].tools = << >>
             /\ servers' = servers
             /\ \A k \in 1..Len(getAllTools') : getAllTools'[k].server # 1]_vars

C8_Witness ==
    /\ Len(sessions[1].written) >= 2
    /\ sessions[1].outcome[2] = "rejected"
    /\ sessions[1].start.st = "resolved"
    /\ Registered(1)

C10_StopAbsentIsNoOp ==
    [][UNCHANGED <<servers, sessions, spawned>>
          \/ \A c \in Commands : servers[c] = 0 => ~stopServer(c)]_vars

\* c has no entry while a process started for c still runs unkilled and
\* another command is registered
C10_Witness ==
    \E c \in Commands :
        /\ servers[c] = 0
        /\ \E s \in Allocated :
              /\ sessions[s].command = c
              /\ sessions[s].proc = "running"
              /\ ~sessions[s].killSent
        /\ \E d \in Commands : servers[d] # 0

\* C11: a stopServer(c) that returns, for a registered command c, has
\* called kill() on the process of c's session and removed c's entry; it
\* wrote no request to the provider and did not wait for the process to
\* exit (the session is otherwise as before, its process still running if
\* it was); the entries of the other commands and all other sessions are
\* unchanged.
C11_StopKillsAndUnregisters ==
    [][\A c \in Commands :
          (servers[c] # 0 /\ servers'[c] = 0 /\ stopServerKill(c, FALSE))
          => /\ sessions'[servers[c]].killSent
             /\ sessions'[servers[c]].written = sessions[servers[c]].written
             /\ sessions'[servers[c]].proc = sessions[servers[c]].proc
             /\ sessions'[servers[c]].pendingRequests
                    = sessions[servers[c]].pendingRequests
             /\ servers'[c] = 0
             /\ \A d \in Commands \ {c} : servers'[d] = servers[d]
             /\ \A r \in SessionIds \ {servers[c]} :
                    sessions'[r] = sessions[r]]_vars

\* a stopped session whose process has not exited, next to a registered
\* session that was not stopped
C11_Witness ==
    \E s, r \in Allocated :
        /\ sessions[s].killSent /\ sessions[s].proc = "running"
        /\ ~Registered(s)
        /\ Registered(r) /\ ~sessions[r].killSent
        /\ sessions[r].proc = "running"

\* C12: a stopAllServers() none of whose kill() calls throws leaves the
\* registry empty and has called kill() on the process of every session
\* that was registered when it was called, however many there were.
C12_StopAllStopsEveryServer ==
    [][(servers' # servers /\ stopAllServersKill({}))
          => /\ \A c \in getActiveServers : sessions'[servers[c]].killSent
             /\ getActiveServers' = {}]_vars

\* every process spawned has been killed while running, none unregistered
\* by its own exit, and the registry is empty
C12_Witness ==
    /\ spawned = MaxSessions
    /\ getActiveServers = {}
    /\ \A s \in Allocated :
          /\ sessions[s].killSent
          /\ sessions[s].proc = "running"
          /\ sessions[s].start.st = "resolved"
    /\ \E s, r \in Allocated : sessions[s].command # sessions[r].command

\* C13: in stopAllServers(), every registered session whose own kill() does
\* not throw is stopped (killed and unregistered), whichever kill() of
\* another session throws.
C13_StopAllAttemptsEveryServer ==
    \A bad \in SUBSET SessionIds :
        \A c \in getActiveServers :
            servers[c] \notin bad
                => /\ sessionsAfterStopAll(bad)[servers[c]].killSent
                   /\ serversAfterStopAll(bad)[c] = 0

\* C14: getAllTools() has exactly one descriptor for every registered
\* session and tool of its list, and no other; the name of a descriptor is
\* "mcp_" followed by the name of its tool; invoking a descriptor the host
\* holds writes one tools/call request with the tool's own name and the
\* given arguments to the session the descriptor was made for, and leaves
\* every other session as it is.
CatalogExact ==
    LET g == getAllTools
    IN  /\ \A c \in getActiveServers :
              \A i \in 1..Len(sessions[servers[c]].tools) :
                  Cardinality({k \in 1..Len(g) :
                      /\ g[k].server = servers[c]
                      /\ g[k].tool = sessions[servers[c]].tools[i]}) = 1
        /\ \A k \in 1..Len(g) :
              /\ Registered(g[k].server)
              /\ \E i \in 1..Len(sessions[g[k].server].tools) :
                    sessions[g[k].server].tools[i] = g[k].tool
              /\ g[k].name = "mcp_" \o g[k].tool

InvocationReachesOwner ==
    \A k \in 1..Len(catalog), p \in ParamVals :
        invokeTool(catalog[k], p)
        => /\ sessions'[catalog[k].server].written =
                 Append(sessions[catalog[k].server].written,
                        [id |-> sessions[catalog[k].server].nextId,
                         method |-> "tools/call",
                         arg |-> [name |-> catalog[k].tool, arguments |-> p]])
           /\ \A r \in SessionIds \ {catalog[k].server} :
                 sessions'[r] = sessions[r]

C15_QualifiedNamesDistinct ==
    LET g == getAllTools
    IN  \A j, k \in 1..Len(g) : j # k => g[j].name # g[k].name

\* C16: an invocation whose tools/call is answered by a response with a
\* result returns a string: when the result has a content list, the texts of
\* its blocks of type "text", in their order, joined with a newline ("" when
\* it has none; "hi" for the single text block "hi"; blocks of other types
\* do not count); for any other result the JSON encoding of the result.
\* (A response with neither an error nor a result object settles the call
\* with a TypeError: see Correlated.)
TextOfContent(cl) ==
    CASE cl = << >> -> ""
      [] cl = <<Block("text", "hi")>> -> "hi"
      [] cl = <<Block("image", "")>> -> ""
      [] cl = <<Block("image", ""), Block("text", "a"), Block("image", ""),
                Block("text", "b")>> -> "a\nb"

ReturnedFor(v) ==
    [st |-> "returned",
     val |-> IF v.tag = "content" THEN TextOfContent(v.content)
             ELSE stringify(v)]

CallsWritten(sv) ==
    Cardinality({i \in 1..Len(sv.written) : sv.written[i].method = "tools/call"})

C17_CallErrorSurfacesNoRetry ==
    [][/\ \A line \in Lines :
            (IsAnswerTo(1, line, "tools/call") /\ line.body = "error"
                /\ onLine(1, line))
            => /\ sessions'[1].returned[line.id] =
                     [st |-> "threw", val |-> line.val.message]
               /\ sessions'[1].written = sessions[1].written
               /\ sessions'[1].nextId = sessions[1].nextId
               /\ sessions'[1].tools = sessions[1].tools
               /\ sessions'[1].proc = sessions[1].proc
               /\ servers' = servers
       /\ CallsWritten(sessions'[1]) # CallsWritten(sessions[1])
            => /\ CallsWritten(sessions'[1]) = CallsWritten(sessions[1]) + 1
               /\ \E k \in 1..Len(catalog), p \in ParamVals :
                     invokeTool(catalog[k], p)]_vars

\* a call that failed with the RPC error, and a later call on the same
\* registered session that returned
C17_Witness ==
    /\ Len(sessions[1].written) = 4
    /\ MethodOf(1, 3) = "tools/call" /\ MethodOf(1, 4) = "tools/call"
    /\ sessions[1].returned[3] = [st |-> "threw", val |-> "e1"]
    /\ sessions[1].returned[4].st = "returned"
    /\ Registered(1)

\* C18: a line that is not valid JSON changes nothing: no request is
\* settled, the pending map, the id counter, the tool list and the registry
\* stay as they are and no caller is resumed, so that what follows is
\* handled from the same state.
\* (no step that changes anything is the reading of such a line)
C18_MalformedLineIgnored ==
    [][vars' # vars
        => \A line \in Lines :
              ~(line.type = "malformed" /\ onLine(1, line))]_vars

\* the session can read a line while a tools/call and the handshake's
\* requests have been settled and another call is in flight
C18_Witness ==
    /\ sessions[1].proc = "running"
    /\ Len(sessions[1].written) = 4
    /\ sessions[1].pendingRequests = {4}
    /\ sessions[1].returned[3].st = "returned"

\* C19: a response whose id is not the id of a request in flight (an id
\* never allocated, or the id of a request answered before) changes
\* nothing: no request is settled or removed from the pending map, no
\* caller is resumed again, the session and the registry stay as they are.
InFlight(sv) == {i \in 1..Len(sv.written) : sv.outcome[i] = "pending"}

\* (no step that changes anything is the reading of such a line)
C19_UnknownIdDropped ==
    [][vars' # vars
        => \A line \in ResponseLines :
              ~(line.id \notin InFlight(sessions[1]) /\ onLine(1, line))]_vars

\* a request was rejected and a later one resolved, so that a second
\* response for either could change what its caller got
C19_Witness ==
    /\ sessions[1].proc \in {"running", "exited"}
    /\ Len(sessions[1].written) = 4
    /\ sessions[1].returned[3].st = "threw"
    /\ sessions[1].returned[4].st = "returned"
    /\ sessions[1].pendingRequests = {}

\* C20, as claimed: a request in the pending map of a session whose process
\* has exited without having been stopped stays in the pending map.
C20_PendingForeverAfterExit ==
    [][(sessions[1].proc = "exited" /\ ~sessions[1].killSent)
        => \A i \in sessions[1].pendingRequests :
              i \in sessions'[1].pendingRequests]_vars

\* C20, amended: the exit and the error handler remove the registry entry
\* of the session's command and leave the pending map and the callers of
\* the requests in flight as they are; afterwards such a request is settled
\* only by a line with its id that is still read from the provider's
\* output, and never once that output has ended.
C20_ExitLeavesPendingUnsettled ==
    [][/\ (onProcessExit(1) \/ onProcessError(1))
            => /\ servers'[sessions[1].command] = 0
               /\ sessions'[1].pendingRequests = sessions[1].pendingRequests
               /\ sessions'[1].outcome = sessions[1].outcome
               /\ sessions'[1].returned = sessions[1].returned
               /\ sessions'[1].start = sessions[1].start
       /\ \A i \in sessions[1].pendingRequests :
            (i \notin sessions'[1].pendingRequests
                \/ sessions'[1].outcome[i] # "pending")
            => \E line \in ResponseLines : line.id = i /\ onLine(1, line)
       /\ sessions[1].proc = "closed"
            => \A i \in sessions[1].pendingRequests :
                  /\ i \in sessions'[1].pendingRequests
                  /\ sessions'[1].outcome[i] = "pending"]_vars

\* the process exited unstopped with a tools/call in flight, and its
\* output has ended
C20_Witness ==
    /\ sessions[1].proc = "closed" /\ ~sessions[1].killSent
    /\ servers[sessions[1].command] = 0
    /\ Len(sessions[1].written) >= 3
    /\ 3 \in sessions[1].pendingRequests
    /\ sessions[1].outcome[3] = "pending"
    /\ sessions[1].returned[3].st = "none"

\* C21: a request written when the provider process has terminated is
\* rejected by the failed write: its caller is not left pending.
C21_WriteAfterExitRejected ==
    [][\A k \in 1..Len(catalog), p \in ParamVals :
          (sessions[catalog[k].server].proc # "running"
              /\ invokeTool(catalog[k], p))
          => sessions'[catalog[k].server].outcome[
                 sessions[catalog[k].server].nextId] = "rejected"]_vars

\* C22: for an object schema whose declared properties have a primitive
\* type, the validator accepts an object exactly when every declared
\* property the object has is of the declared type and the object has every
\* declared property that the required list names: a property is required
\* when listed and optional otherwise.  ({a: string} with required [a]
\* rejects {} and accepts {a: "x"}; without a required list it accepts {}.)
PrimitiveTypes == {"string", "number", "integer", "boolean"}
Conforms(ty, x) ==
    CASE ty = "string" -> x.kind = "string"
      [] ty = "number" -> x.kind \in {"int", "float"}
      [] ty = "integer" -> x.kind = "int"
      [] ty = "boolean" -> x.kind = "boolean"

ValidatedObject ==
    /\ conversion.verdict # "none"
    /\ ~conversion.schema.isNull
    /\ conversion.schema.type = "object"
    /\ conversion.value.kind = "object"

C23_OmittedRequiredAllRequired ==
    (/\ ValidatedObject
     /\ ~conversion.schema.hasRequired
     /\ \E k \in DOMAIN conversion.schema.properties :
           k \notin DOMAIN conversion.value.fields)
    => conversion.verdict = "reject"

\* C23, amended: the validator of an object schema without a required list
\* accepts an object that has none of the declared properties, whatever
\* their sub-schemas: every declared property is optional.
C23_OmittedRequiredAllOptional ==
    (/\ ValidatedObject
     /\ ~conversion.schema.hasRequired
     /\ DOMAIN conversion.schema.properties
            \cap DOMAIN conversion.value.fields = {})
    => conversion.verdict = "accept"

\* two declared properties, no required list, {} accepted
C23_Witness ==
    /\ ValidatedObject
    /\ ~conversion.schema.hasRequired
    /\ DOMAIN conversion.schema.properties = Keys
    /\ conversion.value = ObjectValue(NoProperties)
    /\ conversion.verdict = "accept"

\* C24: the validator made of a missing schema or of a schema without a
\* type accepts every value.
C24_MissingSchemaAcceptsAnything ==
    (/\ conversion.verdict # "none"
     /\ (conversion.schema.isNull \/ conversion.schema.type = "none"))
    => conversion.verdict = "accept"

\* C25: the translation of a tool's input schema never raises.
C25_TranslationNeverFails ==
    conversion.parameters # Threw

\* C26: a message whose id is the id of a request in flight and which
\* carries neither a result nor an error (a request of the provider to the
\* host, with an id and a method) does not resolve the caller of that
\* request.
C26_NeitherDoesNotResolve ==
    [][\A line \in ResponseLines :
          (/\ line.body = "none"
           /\ line.id \in sessions[1].pendingRequests
           /\ onLine(1, line))
          => sessions'[1].outcome[line.id] # "resolved"]_vars

\* C27: the entry of a request is in the pending map from the moment the
\* request is written, so in every state a request that was written and has
\* not been answered has its entry: the response to it, whenever it is
\* read, is looked up successfully and not dropped as unknown.
C27_ResponseFindsPending ==
    \A s \in SessionIds :
        \A i \in InFlight(sessions[s]) :
            \A line \in ResponseLines :
                line.id = sessions[s].written[i].id
                => PendingLookup(sessions[s], line) = line.id

\* the response to the request written last has been received and has
\* settled it
C27_Witness ==
    /\ Len(sessions[1].written) = 3
    /\ sessions[1].outcome[3] = "resolved"
    /\ sessions[1].pendingRequests = {}

\* C28: in every session the pending map holds exactly the ids of the
\* requests written and not yet answered, every id in it is below nextId,
\* and a request that has been settled stays as it was settled: its entry
\* is removed once, at the first matching response, and its caller is not
\* settled again.
PendingExact(sv) ==
    /\ sv.pendingRequests = {sv.written[i].id : i \in InFlight(sv)}
    /\ \A i \in sv.pendingRequests : i < sv.nextId

SettledOnce(s) ==
    \A i \in 1..Len(sessions[s].outcome) :
        sessions[s].outcome[i] # "pending"
        => /\ sessions'[s].outcome[i] = sessions[s].outcome[i]
           /\ i \notin sessions'[s].pendingRequests

C28_PendingMapExact ==
    /\ [](\A s \in SessionIds : PendingExact(sessions[s]))
    /\ [][\A s \in SessionIds : SettledOnce(s)]_vars

\* one request answered, two in flight, and ids allocated up to the bound
C28_Witness ==
    /\ sessions[1].pendingRequests = {3, 4}
    /\ sessions[1].outcome[2] = "resolved"
    /\ sessions[1].nextId = 5

\* C29: a step in which a request in flight of one session is settled (a
\* response with its id was read from that session's provider) leaves
\* every other session as it is: the request with the same id of another
\* session stays pending, its id counter and its tool list do not change,
\* and the registry does not change.
C29_SessionsIndependent ==
    [][\A s \in SessionIds :
          (\E i \in InFlight(sessions[s]) : sessions'[s].outcome[i] # "pending")
          => /\ \E line \in ResponseLines : onLine(s, line)
             /\ \A t \in SessionIds \ {s} : sessions'[t] = sessions[t]
             /\ servers' = servers]_vars

\* two sessions had a request with id 2 in flight: the first one's was
\* answered and gave its tools, the second one's is still pending
C29_Witness ==
    /\ sessions[1].outcome = <<"resolved", "resolved">>
    /\ sessions[1].tools # << >>
    /\ sessions[2].outcome = <<"resolved", "pending">>
    /\ sessions[2].pendingRequests = {2}
    /\ sessions[2].nextId = 3
    /\ sessions[2].tools = << >>

\* C30: the exit or error event of a provider process removes from the
\* registry only the session that owns that process: the entry of another
\* session (one started under the same command after the first was
\* stopped) stays.
C30_EventRemovesOnlyOwner ==
    [][servers' # servers
        => \A s \in SessionIds :
              (onProcessExit(s) \/ onProcessError(s))
              => \A c \in Commands :
                    servers[c] # s => servers'[c] = servers[c]]_vars

\* C31: the invocation of a tool descriptor whose session is not registered
\* any more (it was stopped, or its process exited, after the descriptor
\* was obtained) writes no request to that session and adds no entry to
\* its pending map.
C31_CallOnlyToRegistered ==
    [][\A k \in 1..Len(catalog), p \in ParamVals :
          (~Registered(catalog[k].server) /\ invokeTool(catalog[k], p))
          => /\ sessions'[catalog[k].server].written
                   = sessions[catalog[k].server].written
             /\ sessions'[catalog[k].server].pendingRequests
                   = sessions[catalog[k].server].pendingRequests]_vars

\* C32: a "/mcp stop <command>" or "/mcp stop-all" that changes the set of
\* registered servers leaves no cached AI thread that offers a tool of a
\* session that is not registered: the thread is discarded, so that the
\* next chat message builds it from getAllTools().
C32_StopDiscardsThread ==
    [][(/\ servers' # servers
        /\ ((\E c \in Commands : mcpStop(c)) \/ mcpStopAll))
       => (host'.aiThread.set
             => \A k \in 1..Len(host'.aiThread.tools) :
                   servers'[sessions'[host'.aiThread.tools[k].server].command]
                       = host'.aiThread.tools[k].server)]_vars

\* C33: whatever the configured servers do, repl.start() is reached.
C33_ReplEventuallyStarted == <>host.repl

====
